---- MODULE Spec2Model ----
(***************************************************************************)
(* A model of the jon scanner (include/jon/Lexer.h), of the Int value     *)
(* built from an integer token (Value.h), of the schema validator          *)
(* (include/jon/schema.h) and of the value nodes of the tree (ast.h).      *)
(*                                                                         *)
(* A source text is a sequence of one-character strings.  Positions are   *)
(* 0-based as in the code: source.at(i) is source[i + 1].                  *)
(***************************************************************************)
EXTENDS Integers, Sequences, FiniteSets, TLC

VARIABLES source, index, lastNl, col, tokenPos, tokens, status,
          errLine, errCaret, errMsg, errAt,
          intTok, intVal, intStatus,
          vValue, vSchema, vResult,
          node, built, jonVal, jonFrom,
          calls, firstSource, firstOutcome

lexVars == <<source, index, lastNl, col, tokenPos, tokens, status,
             errLine, errCaret, errMsg, errAt>>
intVars == <<intTok, intVal, intStatus>>
valVars == <<vValue, vSchema, vResult>>
astVars == <<node, built, jonVal, jonFrom>>
reuseVars == <<calls, firstSource, firstOutcome>>
vars == <<lexVars, intVars, valVars, astVars, reuseVars>>

\* ------------------------------------------------------------ characters

NL == "\n"
\* The '\0' character that advance() and lookup() return at the end of input.
NUL == "NUL"

\* ---------------------------------------------------------------- bounds

\* Longest source text, counted in fragments of the lexicon.
MaxFrags == 3

\* Largest integer among the validated values and the schema bounds.
MaxInt == 11

\* Number of calls of lex made on one Lexer.
MaxCalls == 3

\* Longest entry list of a constructed Object, longest value list of a
\* constructed Array.
MaxEntries == 3

\* ------------------------------------------------------------ cursor state
(***************************************************************************)
(* The scanner's functions are operators over a record L of the fields    *)
(* they read and write: index, lastNl, col, tokens, and                    *)
(*   st    "ok", or the exception that left the function,                  *)
(*   ret   the function's return value (advance's character),              *)
(*   val   the local std::string val under construction,                   *)
(*   closed, sign, baseSpecific, kind   the locals of those names,         *)
(*   sliceTo   error()'s local of that name,                               *)
(*   line, caret, msg   the diagnostic built by error(): the quoted source *)
(*         line, the column of the pointer, the message,                   *)
(*   at    the value of index when error() was entered.                    *)
(***************************************************************************)

Raise(L, e) == [L EXCEPT !.st = e]

\* source.at(i)
At(i) == source[i + 1]

eof(L) == L.index >= Len(source)

\* lookup(dist): the character dist places ahead, '\0' when there is none.
\* source.size() - dist is unsigned; it wraps only when size < dist, which
\* needs size <= 1 with dist = 2, and isSeq reads lookup(2) only after
\* lookup(1) matched a quote, which needs size >= 2.
lookup(L, dist) ==
    IF L.index < Len(source) - dist THEN At(L.index + dist) ELSE NUL

\* One iteration of advance's loop; isNL() reads peek(), i.e. source.at(index).
RECURSIVE advanceLoop(_, _)
advanceLoop(L, i) ==
    IF i = 0 THEN L
    ELSE IF eof(L) THEN Raise(L, "out_of_range")
    ELSE advanceLoop(
             [L EXCEPT !.lastNl = IF At(L.index) = NL THEN L.index ELSE @,
                       !.col = IF At(L.index) = NL THEN 0 ELSE (@ + 1) % 65536,
                       !.index = @ + 1],
             i - 1)

\* advance(dist): returns the character it started at, or '\0' when the
\* cursor ends at the end of input.
advance(L, dist) ==
    IF L.st # "ok" THEN L
    ELSE IF eof(L) THEN Raise(L, "out_of_range")
    ELSE LET cur == At(L.index)
             M == advanceLoop(L, dist)
         IN IF M.st # "ok" THEN M
            ELSE [M EXCEPT !.ret = IF eof(M) THEN NUL ELSE cur]

\* val += advance()
appendAdvance(L) ==
    LET M == advance(L, 1)
    IN IF M.st # "ok" THEN M ELSE [M EXCEPT !.val = Append(@, M.ret)]

isDigitChar(c) == c \in {"0", "1", "2", "3", "4", "5", "6", "7", "8", "9"}

isHexDigitChar(c) ==
    \/ isDigitChar(c)
    \/ c \in {"a", "b", "c", "d", "e", "f"}
    \/ c \in {"A", "B", "C", "D", "E", "F"}

isOctDigitChar(c) == c \in {"0", "1", "2", "3", "4", "5", "6", "7"}

isBinDigitChar(c) == c \in {"0", "1"}

isHiddenChar(c) == c \in {" ", "\t", "\r"}

\* -------------------------------------------------------------- tokens

Tok(kind, val, pos, len) == [kind |-> kind, val |-> val, pos |-> pos, len |-> len]

\* addToken(kind, val) with the cursor, which stands after the token, in
\* the place of tokenPos.
addTokenValAtCursor(L, kind, val, tpos) ==
    IF L.st # "ok" THEN L
    ELSE [L EXCEPT !.tokens = Append(@, Tok(kind, val, L.index, Len(val)))]

\* addToken(kind, val): the span is (tokenPos, val.size()).
addTokenVal(L, kind, val, tpos) ==
    IF L.st # "ok" THEN L
    ELSE [L EXCEPT !.tokens = Append(@, Tok(kind, val, tpos, Len(val)))]

\* addToken(kind, len): the token's text is empty.
addTokenLen(L, kind, len, tpos) ==
    IF L.st # "ok" THEN L
    ELSE [L EXCEPT !.tokens = Append(@, Tok(kind, <<>>, tpos, len))]

\* addTokenAdvance(kind, len)
addTokenAdvance(L, kind, len, tpos) ==
    LET M == advance(L, len)
    IN IF M.st # "ok" THEN M
       ELSE [M EXCEPT !.tokens = Append(@, Tok(kind, <<>>, tpos, len))]

\* -------------------------------------------------------------- errors

\* error(msg): moves the cursor to the end of the line, then builds the
\* quoted line and the pointer line from lastNl and col as they are then.
RECURSIVE errorLoop(_, _)
errorLoop(L, sliceTo) ==
    IF eof(L) THEN [L EXCEPT !.sliceTo = sliceTo]
    ELSE IF At(L.index) = NL THEN [L EXCEPT !.sliceTo = L.index]
    ELSE errorLoop(advance(L, 1), L.index)

error(L, msg) ==
    LET M == errorLoop(L, L.index)
        sliceTo == M.sliceTo
        caret == IF Len(msg) + 2 < M.col
                 THEN (M.col - Len(msg) - 1) + Len(msg) + 1
                 ELSE M.col
    IN [M EXCEPT !.st = "parse_error",
                 !.line = SubSeq(source, M.lastNl + 1, sliceTo),
                 !.caret = caret,
                 !.msg = msg,
                 !.at = L.index]

\* mstr(c) for the characters a message can name.
mstr(c) == c

\* The backquote character of the messages.  A string of this module cannot
\* hold one, so another single character stands for it; only the length of
\* a message is ever read.
BQ == "~"

\* expectedError(expected): isNL() reads peek().
expectedError(L, expected) ==
    IF eof(L) THEN Raise(L, "out_of_range")
    ELSE LET got == IF At(L.index) = NL THEN "new line"
                    ELSE BQ \o mstr(At(L.index)) \o BQ
         IN error(L, "Expected " \o expected \o ", got " \o got)

\* ------------------------------------------------------------ comments

\* The block comment's loop never moves the cursor, so every iteration sees
\* the same two characters and changes depth (a uint8_t, from 1) by the same
\* step: +1 at `/*`, -1 at `*/`, 0 elsewhere.  After n iterations depth is
\* (1 + n * step) mod 256, and the loop breaks at the first n that makes it 0.
\* depth takes 256 values, so a loop that has not ended by then never ends.
blockStep(L) ==
    (IF At(L.index) = "/" /\ lookup(L, 1) = "*" THEN 1 ELSE 0)
    - (IF At(L.index) = "*" /\ lookup(L, 1) = "/" THEN 1 ELSE 0)

blockEnds(L) == \E n \in 1..256 : (1 + n * blockStep(L)) % 256 = 0

\* Whether the block comment's loop, entered at L, never ends.
blockSpins(L) == ~eof(L) /\ ~blockEnds(L)

\* The // loop: advance, then isNL(), which reads peek() unguarded.
RECURSIVE lineLoop(_)
lineLoop(L) ==
    IF L.st # "ok" \/ eof(L) THEN L
    ELSE LET M == advance(L, 1)
         IN IF M.st # "ok" THEN M
            ELSE IF eof(M) THEN Raise(M, "out_of_range")
            ELSE IF At(M.index) = NL THEN M
            ELSE lineLoop(M)

\* lexComment, for a run in which the block comment's loop ends (or is not
\* entered).  peek() is '/' here: lexCurrent dispatched on it.
lexComment(L) ==
    IF lookup(L, 1) = "*" THEN advance(L, 2)
    ELSE IF lookup(L, 1) = "/" THEN lineLoop(L)
    ELSE L

\* ------------------------------------------------------------- strings

isSeq3(L, q) == lookup(L, 0) = q /\ lookup(L, 1) = q /\ lookup(L, 2) = q

RECURSIVE mlLoop(_, _)
mlLoop(L, q) ==
    IF L.st # "ok" \/ eof(L) THEN L
    ELSE IF isSeq3(L, q) THEN [L EXCEPT !.closed = TRUE]
    ELSE mlLoop(appendAdvance(L), q)

lexMLString(L, tpos) ==
    LET quote == At(L.index)
        A == advance(L, 3)
        B == IF A.st # "ok" THEN A ELSE mlLoop([A EXCEPT !.closed = FALSE, !.val = <<>>], quote)
    IN IF B.st # "ok" THEN B
       ELSE IF ~B.closed THEN expectedError(B, mstr(quote) \o mstr(quote) \o mstr(quote))
       ELSE LET C == advance(B, 3)
            IN addTokenVal(C, "String", B.val, tpos)

RECURSIVE normalLoop(_, _)
normalLoop(L, q) ==
    IF L.st # "ok" \/ eof(L) THEN L
    ELSE IF At(L.index) = NL \/ At(L.index) = q THEN L
    ELSE normalLoop(appendAdvance(L), q)

\* skip(c) without its test of the character under the cursor.
skipUnchecked(L, c) == advance(L, 1)

\* skip(c)
skip(L, c) ==
    IF L.st # "ok" THEN L
    ELSE IF eof(L) THEN Raise(L, "out_of_range")
    ELSE IF At(L.index) # c THEN expectedError(L, BQ \o mstr(c) \o BQ)
    ELSE advance(L, 1)

lexNormalString(L, tpos) ==
    LET A == advance(L, 1)
        quote == A.ret
        B == IF A.st # "ok" THEN A ELSE normalLoop([A EXCEPT !.val = <<>>], quote)
        C == skip(B, quote)
    IN addTokenVal(C, "String", B.val, tpos)

lexString(L, tpos) ==
    IF isSeq3(L, At(L.index)) THEN lexMLString(L, tpos) ELSE lexNormalString(L, tpos)

\* ------------------------------------------------------------- numbers

isBaseDigit(base, c) ==
    CASE base = 2 -> isBinDigitChar(c)
      [] base = 8 -> isOctDigitChar(c)
      [] base = 16 -> isHexDigitChar(c)
      [] OTHER -> isDigitChar(c)

\* while (not eof()) { skipOpt('_'); if (not <digit>) break; val += advance(); }
\* The digit test reads peek() after skipOpt may have moved the cursor.
RECURSIVE digitLoop(_, _)
digitLoop(L, base) ==
    IF L.st # "ok" \/ eof(L) THEN L
    ELSE LET A == IF At(L.index) = "_" THEN advance(L, 1) ELSE L
         IN IF eof(A) THEN Raise(A, "out_of_range")
            ELSE IF ~isBaseDigit(base, At(A.index)) THEN A
            ELSE digitLoop(appendAdvance(A), base)

\* The sign: '+' is skipped and leaves `sign` false; '-' is kept in val.
signPart(L) ==
    IF At(L.index) = "+" THEN advance(L, 1)
    ELSE IF At(L.index) = "-"
         THEN [advance([L EXCEPT !.val = Append(@, "-")], 1) EXCEPT !.sign = TRUE]
    ELSE L

\* One of the three `if (peek() == '0' and (lookup() == lo or lookup() == up))`
\* blocks of lexNum; each starts by reading peek().
basePart(L, lo, up, base, kind, signedMsg, expected) ==
    IF L.st # "ok" THEN L
    ELSE IF eof(L) THEN Raise(L, "out_of_range")
    ELSE IF ~(At(L.index) = "0" /\ lookup(L, 1) \in {lo, up}) THEN L
    ELSE IF L.sign THEN error(L, signedMsg)
    ELSE LET A == advance([L EXCEPT !.baseSpecific = TRUE], 2)
         IN IF A.st # "ok" THEN A
            ELSE IF eof(A) THEN Raise(A, "out_of_range")
            ELSE IF ~isBaseDigit(base, At(A.index)) THEN expectedError(A, expected)
            ELSE [digitLoop(A, base) EXCEPT !.kind = kind]

\* The kind lexNum gives a `0b` literal (Lexer.h line 424).
binKind == "OctoInt"

binPart(L) ==
    basePart(L, "b", "B", 2, binKind,
             "Signed binary numbers are not allowed", "binary digit")

hexPart(L) ==
    basePart(L, "x", "X", 16, "HexInt",
             "Signed hexadecimal numbers are not allowed", "hexadecimal digit")

octPart(L) ==
    basePart(L, "o", "O", 8, "OctoInt",
             "Signed octal numbers are not allowed", "octal digit")

decPart(L) ==
    IF L.st # "ok" \/ L.baseSpecific THEN L
    ELSE LET A == [digitLoop(L, 10) EXCEPT !.kind = "DecInt"]
         IN IF A.st # "ok" THEN A
            ELSE IF eof(A) THEN Raise(A, "out_of_range")
            ELSE IF At(A.index) # "." THEN A
            ELSE LET B == appendAdvance(A)
                 IN IF B.st # "ok" THEN B
                    ELSE IF eof(B) THEN Raise(B, "out_of_range")
                    ELSE IF ~isDigitChar(At(B.index))
                         THEN expectedError(B, "fractional part of number")
                    ELSE [digitLoop(B, 10) EXCEPT !.kind = "Float"]

lexNum(L, tpos) ==
    LET A == decPart(octPart(hexPart(binPart(signPart(
                 [L EXCEPT !.val = <<>>, !.sign = FALSE, !.baseSpecific = FALSE])))))
    IN addTokenVal(A, A.kind, A.val, tpos)

\* ------------------------------------------------- identifiers, keywords

isIdentStop(c) == c \in {",", ":", "{", "}", "[", "]", "'", "\"", NL}

RECURSIVE identLoop(_)
identLoop(L) ==
    IF L.st # "ok" \/ eof(L) THEN L
    ELSE IF isIdentStop(At(L.index)) THEN L
    ELSE identLoop(appendAdvance(L))

\* rtrim (utils.h): the text without its trailing horizontal whitespace.
RECURSIVE rtrim(_)
rtrim(s) ==
    IF s # <<>> /\ s[Len(s)] \in {" ", "\t"} THEN rtrim(SubSeq(s, 1, Len(s) - 1))
    ELSE s

\* The kind lexMisc gives the spelling `true` (Lexer.h line 534).
trueKind == "False"

\* The tail of lexMisc: the run, then its reclassification.
lexIdent(L, tpos) ==
    LET A == identLoop([L EXCEPT !.val = <<>>])
        trimmed == rtrim(A.val)
    IN IF trimmed = <<"n", "u", "l", "l">> THEN addTokenLen(A, "Null", 4, tpos)
       ELSE IF trimmed = <<"f", "a", "l", "s", "e">> THEN addTokenLen(A, "False", 5, tpos)
       ELSE IF trimmed = <<"t", "r", "u", "e">> THEN addTokenLen(A, trueKind, 4, tpos)
       ELSE IF trimmed = <<"n", "a", "n">> THEN addTokenLen(A, "NaN", 3, tpos)
       ELSE IF trimmed = <<"i", "n", "f">> THEN addTokenLen(A, "Inf", 3, tpos)
       ELSE IF trimmed = <<"-", "i", "n", "f">> THEN addTokenLen(A, "NegInf", 3, tpos)
       ELSE addTokenVal(A, "String", A.val, tpos)

\* lexMisc's test for a number: a digit, or a sign followed by a digit.
startsNum(L) ==
    \/ isDigitChar(At(L.index))
    \/ (At(L.index) = "-" \/ At(L.index) = "+") /\ isDigitChar(lookup(L, 1))

\* The punctuation cases of lexCurrent's switch.
punctKind(c) ==
    CASE c = "," -> "Comma"
      [] c = ":" -> "Colon"
      [] c = "{" -> "LBrace"
      [] c = "}" -> "RBrace"
      [] c = "[" -> "LBracket"
      [] c = "]" -> "RBracket"

isPunct(c) == c \in {",", ":", "{", "}", "[", "]"}

\* ------------------------------------------------- the Int value (Value.h)

IntKinds == {"DecInt", "HexInt", "OctoInt", "BinInt"}

\* Token::intBase
intBase(kind) ==
    CASE kind = "DecInt" -> 0
      [] kind = "HexInt" -> 16
      [] kind = "OctoInt" -> 8
      [] kind = "BinInt" -> 2

digitValue(c) ==
    CASE c = "0" -> 0 [] c = "1" -> 1 [] c = "2" -> 2 [] c = "3" -> 3
      [] c = "4" -> 4 [] c = "5" -> 5 [] c = "6" -> 6 [] c = "7" -> 7
      [] c = "8" -> 8 [] c = "9" -> 9
      [] c \in {"a", "A"} -> 10 [] c \in {"b", "B"} -> 11
      [] c \in {"c", "C"} -> 12 [] c \in {"d", "D"} -> 13
      [] c \in {"e", "E"} -> 14 [] c \in {"f", "F"} -> 15

\* The longest prefix of s made of decimal digits.
RECURSIVE decPrefix(_)
decPrefix(s) ==
    IF s = <<>> \/ ~isDigitChar(s[1]) THEN <<>>
    ELSE <<s[1]>> \o decPrefix(Tail(s))

\* The value of a digit sequence in a base.
RECURSIVE digitsValue(_, _)
digitsValue(s, base) ==
    IF s = <<>> THEN 0
    ELSE digitsValue(SubSeq(s, 1, Len(s) - 1), base) * base + digitValue(s[Len(s)])

\* The base std::stoull reads in when called as stoull(str, nullptr).
stoullBase == 10

\* std::stoull(str, nullptr) followed by the conversion to int64_t: leading
\* white space, an optional sign, then the longest run of digits of the
\* base; no digit raises invalid_argument.  A '-' negates the unsigned
\* value, and the conversion to int64_t then gives -v for every v < 2^63;
\* the digit runs of this model stay far below that.
stoull(s) ==
    LET t == IF s # <<>> /\ s[1] \in {" ", "\t"} THEN Tail(s) ELSE s
        neg == t # <<>> /\ t[1] = "-"
        body == IF t # <<>> /\ t[1] \in {"-", "+"} THEN Tail(t) ELSE t
        digits == decPrefix(body)
        v == digitsValue(digits, stoullBase)
    IN IF digits = <<>> THEN [st |-> "invalid_argument", val |-> 0]
       ELSE [st |-> "ok", val |-> IF neg THEN 0 - v ELSE v]

\* ------------------------------------------------- values (jon, jon.h)
(***************************************************************************)
(* A jon value is a record [t, v]: its type tag and its payload.  An      *)
(* object's payload is the sequence of its <<key, value>> entries, keys    *)
(* distinct; an array's is the sequence of its elements.  A float's        *)
(* payload is an integer standing for the number.                          *)
(***************************************************************************)

VNull == [t |-> "Null", v |-> 0]
VBool(b) == [t |-> "Bool", v |-> b]
VInt(i) == [t |-> "Int", v |-> i]
VFloat(x) == [t |-> "Float", v |-> x]
VStr(s) == [t |-> "String", v |-> s]
VArr(a) == [t |-> "Array", v |-> a]
VObj(e) == [t |-> "Object", v |-> e]

\* jon::has(key)
has(o, k) == o.t = "Object" /\ \E i \in 1..Len(o.v) : o.v[i][1] = k

\* jon::at(key), jon::operator[](key), for a key the object has
at(o, k) == o.v[CHOOSE i \in 1..Len(o.v) : o.v[i][1] = k][2]

\* Whether jon::at<T>(key) returns: the key is there and holds a T.
atIs(o, k, t) == has(o, k) /\ at(o, k).t = t

\* ------------------------------------------------ value nodes (ast.h)
(***************************************************************************)
(* A node of the tree is a record [kind, val]: the ValueKind the base      *)
(* constructor Value(kind) stores and the payload member (val, entries or  *)
(* values).  Int and Float keep the text of the literal.                   *)
(***************************************************************************)

\* Null() : Value(ValueKind::Null)
AstNull == [kind |-> "Null", val |-> <<>>]

\* Bool(bool val) : Value(ValueKind::Bool), val(val)
AstBool(val) == [kind |-> "Bool", val |-> val]

\* Int(const std::string & val) : Value(ValueKind::Int), val(val)
AstInt(val) == [kind |-> "Int", val |-> val]

\* Float(const std::string & val) : Value(ValueKind::Float), val(val)
AstFloat(val) == [kind |-> "Float", val |-> val]

\* String(const std::string & val) : Value(ValueKind::String), val(val)
AstString(val) == [kind |-> "String", val |-> val]

\* KeyValue(Ident && key, value_ptr && val)
KeyValue(key, val) == [key |-> key, val |-> val]

\* An Object constructor that passes ValueKind::String to Value.
AstObjectAsString(entries) == [kind |-> "String", val |-> entries]

\* Object(Entries && entries) : Value(ValueKind::Object), entries(std::move(entries))
AstObject(entries) == [kind |-> "Object", val |-> entries]

\* Array(value_list && values) : Value(ValueKind::Array), values(std::move(values))
AstArray(values) == [kind |-> "Array", val |-> values]

\* ------------------------------------------------ validation (schema.h)

\* Schema::typeNames
typeNames ==
    [n \in {"null", "bool", "int", "float", "string", "object", "array"} |->
        CASE n = "null" -> "Null"
          [] n = "bool" -> "Bool"
          [] n = "int" -> "Int"
          [] n = "float" -> "Float"
          [] n = "string" -> "String"
          [] n = "object" -> "Object"
          [] n = "array" -> "Array"]

\* The outcomes of a call of validate: it returns "true" or "false", leaves
\* by an exception ("throw"), or reaches the end of the function without a
\* return statement ("noreturn").
res(b) == IF b THEN "true" ELSE "false"

\* status &= <bool>, for outcomes
andRes(a, b) == res(a = "true" /\ b = "true")

\* A schema key that, when present, must hold a T for at<T> to return.
badKey(schema, k, t) == has(schema, k) /\ at(schema, k).t # t

\* value <= mini, value >= maxi (schema.h lines 49 and 53)
intMinOk(v, mini) == v <= mini
intMaxOk(v, maxi) == v >= maxi

validateInt(value, schema) ==
    IF badKey(schema, "mini", "Int") \/ badKey(schema, "maxi", "Int") THEN "throw"
    ELSE res(/\ has(schema, "mini") => intMinOk(value.v, at(schema, "mini").v)
             /\ has(schema, "maxi") => intMaxOk(value.v, at(schema, "maxi").v))

\* value <= minf, value >= maxf (schema.h lines 65 and 69)
validateFloat(value, schema) ==
    IF badKey(schema, "minf", "Float") \/ badKey(schema, "maxf", "Float") THEN "throw"
    ELSE res(/\ has(schema, "minf") => value.v <= at(schema, "minf").v
             /\ has(schema, "maxf") => value.v >= at(schema, "maxf").v)

\* size >= bound and size <= bound, of a size_t and an int64_t: the bound is
\* converted to unsigned, so a negative one is larger than every size.
sizeGe(size, bound) == IF bound < 0 THEN FALSE ELSE size >= bound
sizeLe(size, bound) == IF bound < 0 THEN TRUE ELSE size <= bound

\* The two size checks shared by the String, Array and Object branches.
sizeChecks(size, schema, kmin, kmax) ==
    IF badKey(schema, kmin, "Int") \/ badKey(schema, kmax, "Int") THEN "throw"
    ELSE res(/\ has(schema, kmin) => sizeGe(size, at(schema, kmin).v)
             /\ has(schema, kmax) => sizeLe(size, at(schema, kmax).v))

\* A lookup that takes a missing or unknown type for Null and never throws.
expectedTypeLax(schema) ==
    IF atIs(schema, "type", "String") /\ at(schema, "type").v \in DOMAIN typeNames
    THEN typeNames[at(schema, "type").v]
    ELSE "Null"

\* typeNames.at(schema.at<str_t>("type")): the type the schema names, or
\* "throw" when either lookup throws (no type key, a type that is not a
\* string, a name typeNames does not hold).
expectedType(schema) ==
    IF ~atIs(schema, "type", "String") THEN "throw"
    ELSE IF at(schema, "type").v \notin DOMAIN typeNames THEN "throw"
    ELSE typeNames[at(schema, "type").v]

\* A schema whose nullable key is never consulted.
nullableNever(schema) == FALSE

\* schema.has("nullable") and schema["nullable"].get<bool_t>()
nullable(schema) == has(schema, "nullable") /\ at(schema, "nullable").v

RECURSIVE validate(_, _)

\* for (value : arrayValue) status &= validate(value, itemsSchema)
RECURSIVE validateItems(_, _, _)
validateItems(arr, itemsSchema, acc) ==
    IF arr = <<>> THEN acc
    ELSE LET r == validate(Head(arr), itemsSchema)
         IN IF r \in {"throw", "noreturn"} THEN r
            ELSE validateItems(Tail(arr), itemsSchema, andRes(acc, r))

\* The loop over the object's entries; acc is [status, checked], checked the
\* size of checkedProps.
RECURSIVE validateProps(_, _, _)
validateProps(entries, props, acc) ==
    IF entries = <<>> THEN acc
    ELSE LET k == Head(entries)[1]
         IN IF ~has(props, k)
            THEN validateProps(Tail(entries), props, [acc EXCEPT !.status = "false"])
            ELSE LET r == validate(Head(entries)[2], at(props, k))
                 IN IF r \in {"throw", "noreturn"} THEN [acc EXCEPT !.status = r]
                    ELSE validateProps(Tail(entries), props,
                             [status |-> andRes(acc.status, r),
                              checked |-> acc.checked + 1])

validateArray(value, schema) ==
    LET sizes == sizeChecks(Len(value.v), schema, "minSize", "maxSize")
    IN IF sizes = "throw" \/ ~has(schema, "items") THEN "throw"
       ELSE validateItems(value.v, at(schema, "items"), sizes)

validateObject(value, schema) ==
    LET sizes == sizeChecks(Len(value.v), schema, "minProps", "maxProps")
    IN IF sizes = "throw" \/ ~atIs(schema, "props", "Object") THEN "throw"
       ELSE LET props == at(schema, "props")
                acc == validateProps(value.v, props, [status |-> sizes, checked |-> 0])
            IN IF acc.status \in {"throw", "noreturn"} THEN acc.status
               ELSE IF acc.checked # Len(props.v) THEN "false"
               ELSE acc.status

validate(value, schema) ==
    IF expectedType(schema) = "throw" THEN "throw"
    ELSE IF badKey(schema, "nullable", "Bool") THEN "throw"
    ELSE IF nullable(schema) /\ value.t = "Null" THEN "true"
    ELSE IF value.t # expectedType(schema) THEN "false"
    ELSE IF expectedType(schema) = "Int" THEN validateInt(value, schema)
    ELSE IF expectedType(schema) = "Float" THEN validateFloat(value, schema)
    ELSE IF expectedType(schema) = "String"
         THEN sizeChecks(Len(value.v), schema, "minLen", "maxLen")
    ELSE IF expectedType(schema) = "Array" THEN validateArray(value, schema)
    ELSE IF expectedType(schema) = "Object" THEN validateObject(value, schema)
    ELSE "noreturn"

\* ------------------------------------------------------------ the inputs

\* The fragments the source texts are made of.
Lexicon ==
    { <<"/", "*">>, <<"*", "/">>, <<"/", "/">>, <<"/">>,
      <<" ">>, <<NL>>, <<"'">>, <<"\"">>, <<"'", "'", "'">>,
      <<"n", "u", "l", "l">>, <<"t", "r", "u", "e">>, <<"-", "i", "n", "f">>,
      <<"a">>, <<"0", "b">>, <<"0", "x">>, <<"0", "o">>,
      <<"1">>, <<"9">>, <<"F">>, <<"+">>, <<"-">>, <<".">>, <<"_">>, <<",">> }

RECURSIVE FragTexts(_)
FragTexts(n) ==
    IF n = 0 THEN {<<>>}
    ELSE LET S == FragTexts(n - 1)
         IN S \cup {s \o f : s \in S, f \in Lexicon}

\* Longer texts the fragments do not reach within MaxFrags.
Samples ==
    { <<"/", "*", " ", "a", " ", "/", "*", " ", "b", " ", "*", "/", " ", "c", " ",
        "*", "/", "n", "u", "l", "l">>,
      <<"/", "*", "*", "/", "n", "u", "l", "l", NL>>,
      <<"'", "a", "b", "c", NL>>,
      <<"x", NL, " ", "\"", "a", "b", "c", NL, "y">>,
      <<"0", "x", "1", "F", NL>>, <<"0", "b", "1", "0", "1", NL>>,
      <<"0", "o", "1", "7", ",">>, <<"-", "5", NL>>, <<"1", "_", "0", ".", "5", NL>>,
      <<"+", "0", "b", "1", NL>>, <<"-", "0", "b", "1", NL>>,
      <<"+", "0", "x", "1", "F", NL>>, <<"-", "0", "x", "1", "F", " ", " ", NL>>,
      <<"+", "0", "o", "7", NL>>, <<"-", "0", "o", "7", NL>>,
      <<"0", "b", "2", " ", " ", " ", NL>>,
      <<"f", "a", "l", "s", "e", NL>>, <<"n", "a", "n", " ", NL>>,
      <<"i", "n", "f", ",">>, <<"t", "r", "u", "e", " ", " ", NL>>,
      <<"{", "a", ":", "[", "1", ",", "]", "}">>,
      <<"-", "5", " ", "'", "a", "'", NL>>,
      <<"\"", "\"", "\"", "a", NL, "b", "\"", "\"", "\"", NL>> }

Sources == FragTexts(MaxFrags) \cup Samples

\* The source texts given to a Lexer that is used more than once.
ReuseSources ==
    FragTexts(1)
    \cup { <<"'", "a", "b", "c", NL>>,
           <<"x", NL, " ", "\"", "a", "b", "c", NL, "y">>,
           <<"-", "0", "b", "1", NL>>,
           <<"0", "x", "1", "F", NL>>,
           <<"a", ",", "1", NL>> }

\* The values and the schemas handed to validate.
Ints == (0 - 1)..MaxInt

OptInts == {<<>>} \cup {<<i>> : i \in 0..MaxInt}

\* The schema {type: int}, with mini and maxi when given.
IntSchema(mini, maxi) ==
    VObj(<<<<"type", VStr("int")>>>>
         \o (IF mini = <<>> THEN <<>> ELSE <<<<"mini", VInt(mini[1])>>>>)
         \o (IF maxi = <<>> THEN <<>> ELSE <<<<"maxi", VInt(maxi[1])>>>>))

TypeSchema(name) == VObj(<<<<"type", VStr(name)>>>>)

DataValues ==
    {VInt(i) : i \in Ints}
    \cup {VNull, VBool(TRUE), VFloat(1), VStr("ab"),
          VArr(<<VInt(1), VStr("a")>>), VObj(<<<<"x", VInt(1)>>>>)}
    \cup {VBool(FALSE), VArr(<<>>), VArr(<<VStr("a"), VInt(1)>>),
          VArr(<<VInt(1), VInt(2)>>),
          VArr(<<VInt(0 - 1)>>), VArr(<<VNull, VInt(1)>>),
          VArr(<<VObj(<<<<"x", VInt(1)>>>>), VObj(<<<<"x", VStr("a")>>>>)>>),
          VArr(<<VObj(<<<<"x", VInt(1)>>>>), VObj(<<<<"x", VInt(2)>>>>)>>),
          VArr(<<VObj(<<<<"x", VStr("a")>>>>), VObj(<<<<"x", VInt(1)>>>>)>>),
          VObj(<<>>), VObj(<<<<"x", VStr("a")>>>>), VObj(<<<<"y", VInt(1)>>>>),
          VObj(<<<<"x", VInt(1)>>, <<"y", VInt(2)>>>>),
          VObj(<<<<"x", VInt(1)>>, <<"y", VStr("a")>>>>),
          VObj(<<<<"x", VInt(1)>>, <<"z", VInt(2)>>>>),
          VObj(<<<<"x", VNull>>>>), VObj(<<<<"x", VBool(TRUE)>>>>)}

\* The schema {type: object, props: {...}} of the given props entries.
ObjectSchema(props) ==
    VObj(<<<<"type", VStr("object")>>, <<"props", VObj(props)>>>>)

\* The schema {type: array, items: ...}.
ArraySchema(items) == VObj(<<<<"type", VStr("array")>>, <<"items", items>>>>)

\* The schema sch with nullable: b added.
WithNullable(sch, b) == VObj(sch.v \o <<<<"nullable", VBool(b)>>>>)

\* The names a schema's type key is given: the seven of typeNames and one
\* that is none of them.
TypeNamesTried == {"null", "bool", "int", "float", "string", "object", "array", "nope"}

PlainSchemas ==
    {IntSchema(lo, hi) : lo \in OptInts, hi \in OptInts}
    \cup {TypeSchema(n) : n \in TypeNamesTried}
    \cup {ArraySchema(TypeSchema("int")),
          ArraySchema(VObj(<<<<"type", VStr("int")>>, <<"mini", VStr("s")>>>>)),
          ArraySchema(ObjectSchema(<<<<"x", TypeSchema("int")>>>>)),
          ArraySchema(TypeSchema("nope")),
          ObjectSchema(<<>>),
          ObjectSchema(<<<<"x", TypeSchema("int")>>>>),
          ObjectSchema(<<<<"x", TypeSchema("int")>>, <<"y", TypeSchema("int")>>>>),
          ObjectSchema(<<<<"x", TypeSchema("string")>>>>),
          ObjectSchema(<<<<"x", TypeSchema("null")>>>>),
          ObjectSchema(<<<<"x", WithNullable(TypeSchema("int"), TRUE)>>>>),
          ObjectSchema(<<<<"x", VObj(<<>>)>>>>),
          ObjectSchema(<<<<"x", IntSchema(<<0>>, <<5>>)>>>>),
          ArraySchema(IntSchema(<<0>>, <<>>)),
          ArraySchema(TypeSchema("null")),
          VObj(<<<<"type", VStr("string")>>, <<"minLen", VInt(1)>>, <<"maxLen", VInt(1)>>>>),
          VObj(<<<<"type", VInt(5)>>>>),
          VObj(<<>>)}

SchemaValues ==
    PlainSchemas
    \cup {WithNullable(sch, TRUE) :
             sch \in {p \in PlainSchemas : ~has(p, "mini") \/ ~has(p, "maxi")}}
    \cup {WithNullable(TypeSchema("int"), FALSE)}

\* The nodes put into the constructed Objects and Arrays.
AstLeaves == {AstInt("1"), AstString("1"), AstString("a")}

AstKeys == {"a", "b"}

RECURSIVE SeqsUpTo(_, _)
SeqsUpTo(S, n) ==
    IF n = 0 THEN {<<>>}
    ELSE LET T == SeqsUpTo(S, n - 1)
         IN T \cup {Append(t, x) : t \in T, x \in S}

AstEntryLists ==
    SeqsUpTo({KeyValue(k, v) : k \in AstKeys, v \in AstLeaves}, MaxEntries)

AstValueLists == SeqsUpTo(AstLeaves, MaxEntries)

\* What a jon is constructed from in the constructors test.
JonPayloads ==
    {"default", "nullptr", "null_t", "bool_t", "int_t", "float_t", "str_t",
     "obj_t", "arr_t"}

\* ---------------------------------------------------------------- state

Init ==
    /\ source = <<>>
    /\ index = 0
    /\ lastNl = 0
    /\ col = 0
    /\ tokenPos = 0
    /\ tokens = <<>>
    /\ status = "idle"
    /\ errLine = <<>>
    /\ errCaret = 0
    /\ errMsg = ""
    /\ errAt = 0
    /\ intTok = Tok("Eof", <<>>, 0, 0)
    /\ intVal = 0
    /\ intStatus = "none"
    /\ vValue = VNull
    /\ vSchema = VObj(<<>>)
    /\ vResult = "none"
    /\ node = [kind |-> "none", val |-> <<>>]
    /\ built = [ctor |-> "none", arg |-> <<>>]
    /\ jonVal = VNull
    /\ jonFrom = "none"
    /\ calls = 0
    /\ firstSource = <<>>
    /\ firstOutcome = [st |-> "none"]

\* The cursor record of the current state, at the head of lex's loop.
Cur ==
    [index |-> index, lastNl |-> lastNl, col |-> col, tokens |-> tokens,
     st |-> "ok", ret |-> NUL, val |-> <<>>, closed |-> FALSE, sign |-> FALSE,
     baseSpecific |-> FALSE, kind |-> "Eof", sliceTo |-> 0,
     line |-> errLine, caret |-> errCaret, msg |-> errMsg, at |-> errAt]

\* The fields of the Lexer after a call of lexCurrent that left it as L.
Commit(L) ==
    /\ index' = L.index
    /\ lastNl' = L.lastNl
    /\ col' = L.col
    /\ tokens' = L.tokens
    /\ status' = IF L.st = "ok" THEN "lexing" ELSE L.st
    /\ errLine' = L.line
    /\ errCaret' = L.caret
    /\ errMsg' = L.msg
    /\ errAt' = L.at

\* One iteration of lex's loop is enabled.
AtLoop == status = "lexing" /\ index < Len(source)

\* The head of lex without tokens.clear().
lexBeginNoClear(S) ==
    /\ \E s \in S : source' = s
    /\ index' = 0
    /\ lastNl' = 0
    /\ col' = 0
    /\ tokens' = tokens
    /\ status' = "lexing"

\* The head of lex, for a source text of S: the assignments that precede
\* its loop.
lexBegin(S) ==
    /\ \E s \in S : source' = s
    /\ index' = 0
    /\ lastNl' = 0
    /\ col' = 0
    /\ tokens' = <<>>
    /\ status' = "lexing"

\* lex(source) on a newly constructed Lexer, up to the head of its loop.
LexStart ==
    /\ status = "idle"
    /\ lexBegin(Sources)
    /\ UNCHANGED <<tokenPos, errLine, errCaret, errMsg, errAt, intVars, valVars, astVars, reuseVars>>

\* case ',' ':' '{' '}' '[' ']'
LexPunct ==
    /\ AtLoop
    /\ isPunct(source[index + 1])
    /\ tokenPos' = index
    /\ Commit(addTokenAdvance(Cur, punctKind(source[index + 1]), 1, index))
    /\ UNCHANGED <<source, intVars, valVars, astVars, reuseVars>>

\* case '/': lexComment.  A call that consumes nothing leaves lex's loop in
\* the state it was in, so the loop repeats it for ever.  A block comment
\* whose loop never ends has no side effect and no exit: the program either
\* stays in it, or, the loop being one the compiler may assume to end, goes
\* on past it.
LexComment ==
    /\ AtLoop
    /\ source[index + 1] = "/"
    /\ tokenPos' = index
    /\ LET L == lexComment(Cur)
           stuck == L.st = "ok" /\ L.index = index
           spins == lookup(Cur, 1) = "*" /\ L.st = "ok" /\ blockSpins(L)
       IN \/ (stuck \/ spins) /\ Commit([L EXCEPT !.st = "hang"])
          \/ spins /\ Commit(L)
          \/ ~stuck /\ ~spins /\ Commit(L)
    /\ UNCHANGED <<source, intVars, valVars, astVars, reuseVars>>

\* case '\'' '"': lexString
LexString ==
    /\ AtLoop
    /\ source[index + 1] \in {"'", "\""}
    /\ tokenPos' = index
    /\ Commit(lexString(Cur, index))
    /\ UNCHANGED <<source, intVars, valVars, astVars, reuseVars>>

\* default: lexMisc, at a newline
LexNL ==
    /\ AtLoop
    /\ source[index + 1] = NL
    /\ tokenPos' = index
    /\ Commit(addTokenAdvance(Cur, "NL", 1, index))
    /\ UNCHANGED <<source, intVars, valVars, astVars, reuseVars>>

\* default: lexMisc, at a hidden character
LexHidden ==
    /\ AtLoop
    /\ isHiddenChar(source[index + 1])
    /\ tokenPos' = index
    /\ Commit(advance(Cur, 1))
    /\ UNCHANGED <<source, intVars, valVars, astVars, reuseVars>>

\* The characters lexCurrent's default case passes to the tail of lexMisc.
IsMiscStart(c) ==
    /\ c # "/" /\ c \notin {"'", "\""} /\ ~isPunct(c)
    /\ c # NL /\ ~isHiddenChar(c)

\* default: lexMisc, at a number
LexNum ==
    /\ AtLoop
    /\ IsMiscStart(source[index + 1])
    /\ startsNum(Cur)
    /\ tokenPos' = index
    /\ Commit(lexNum(Cur, index))
    /\ UNCHANGED <<source, intVars, valVars, astVars, reuseVars>>

\* default: lexMisc, at anything else
LexIdent ==
    /\ AtLoop
    /\ IsMiscStart(source[index + 1])
    /\ ~startsNum(Cur)
    /\ tokenPos' = index
    /\ Commit(lexIdent(Cur, index))
    /\ UNCHANGED <<source, intVars, valVars, astVars, reuseVars>>

\* The end of lex without the assignment tokenPos = index that precedes
\* addToken.
LexEofStalePos ==
    /\ status = "lexing"
    /\ index >= Len(source)
    /\ tokenPos' = tokenPos
    /\ tokens' = Append(tokens, Tok("Eof", <<>>, tokenPos, 0))
    /\ status' = "done"
    /\ UNCHANGED <<source, index, lastNl, col, errLine, errCaret, errMsg, errAt, intVars, valVars, astVars, reuseVars>>

\* The end of lex: the Eof token, and the token sequence is returned.
LexEof ==
    /\ status = "lexing"
    /\ index >= Len(source)
    /\ tokenPos' = index
    /\ tokens' = Append(tokens, Tok("Eof", <<>>, index, 0))
    /\ status' = "done"
    /\ UNCHANGED <<source, index, lastNl, col, errLine, errCaret, errMsg, errAt, intVars, valVars, astVars, reuseVars>>

\* A call of lex has ended: it returned, or an exception left it.
Finished == status \in {"done", "parse_error", "out_of_range"}

\* What the caller of lex gets: the token sequence, or the exception with
\* the diagnostic it carries.
Outcome ==
    CASE status = "done" -> [st |-> "done", tokens |-> tokens]
      [] status = "parse_error" ->
            [st |-> "parse_error", line |-> errLine, caret |-> errCaret, msg |-> errMsg]
      [] OTHER -> [st |-> status]

\* lex(source) on a Lexer that is new or was used for earlier calls, up to
\* the head of its loop.  The first call's source and outcome are recorded,
\* and the last call is given the first call's source again.
LexCall ==
    /\ status = "idle" \/ Finished
    /\ calls < MaxCalls
    /\ lexBegin(IF calls = 0 \/ calls < MaxCalls - 1 THEN ReuseSources ELSE {firstSource})
    /\ calls' = calls + 1
    /\ firstSource' = IF calls = 0 THEN source' ELSE firstSource
    /\ firstOutcome' = IF calls = 1 THEN Outcome ELSE firstOutcome
    /\ UNCHANGED <<tokenPos, errLine, errCaret, errMsg, errAt, intVars, valVars, astVars>>

\* val::Int::Int(token), on an integer token of the returned sequence.
IntFromToken ==
    /\ status = "done"
    /\ intStatus = "none"
    /\ \E i \in 1..Len(tokens) :
          /\ tokens[i].kind \in IntKinds
          /\ intTok' = tokens[i]
          /\ intVal' = stoull(tokens[i].val).val
          /\ intStatus' = stoull(tokens[i].val).st
    /\ UNCHANGED <<lexVars, valVars, astVars, reuseVars>>

Next ==
    \/ LexStart
    \/ LexPunct
    \/ LexComment
    \/ LexString
    \/ LexNL
    \/ LexHidden
    \/ LexNum
    \/ LexIdent
    \/ LexEof
    \/ IntFromToken

Spec == Init /\ [][Next]_vars

\* A Lexer used for MaxCalls calls of lex.
NextReuse ==
    \/ LexCall
    \/ LexPunct
    \/ LexComment
    \/ LexString
    \/ LexNL
    \/ LexHidden
    \/ LexNum
    \/ LexIdent
    \/ LexEof

SpecReuse == Init /\ [][NextReuse]_vars

\* Schema::validate(value, schema).  A call that reaches the end of the
\* function without a return statement has undefined behaviour: the caller
\* reads either truth value, or the program stops.
ValidateCall ==
    /\ vResult = "none"
    /\ \E v \in DataValues, sch \in SchemaValues :
          /\ vValue' = v
          /\ vSchema' = sch
          /\ LET r == validate(v, sch)
             IN IF r = "noreturn" THEN vResult' \in {"true", "false", "crash"}
                ELSE vResult' = r
    /\ UNCHANGED <<lexVars, intVars, astVars, reuseVars>>

NextSchema == ValidateCall

SpecSchema == Init /\ [][NextSchema]_vars

\* ------------------------------------------------- value nodes (ast.h)

\* The value variables a construction leaves alone.
AstFrame == UNCHANGED <<lexVars, intVars, valVars, reuseVars, jonVal, jonFrom>>

NewNull ==
    /\ built' = [ctor |-> "Null", arg |-> <<>>]
    /\ node' = AstNull
    /\ AstFrame

NewBool ==
    /\ \E b \in BOOLEAN :
          /\ built' = [ctor |-> "Bool", arg |-> b]
          /\ node' = AstBool(b)
    /\ AstFrame

NewInt ==
    /\ \E t \in {"0", "1", "0x1F"} :
          /\ built' = [ctor |-> "Int", arg |-> t]
          /\ node' = AstInt(t)
    /\ AstFrame

NewFloat ==
    /\ \E t \in {"1.5", "inf"} :
          /\ built' = [ctor |-> "Float", arg |-> t]
          /\ node' = AstFloat(t)
    /\ AstFrame

NewString ==
    /\ \E t \in {"", "a", "null"} :
          /\ built' = [ctor |-> "String", arg |-> t]
          /\ node' = AstString(t)
    /\ AstFrame

NewObject ==
    /\ \E e \in AstEntryLists :
          /\ built' = [ctor |-> "Object", arg |-> e]
          /\ node' = AstObject(e)
    /\ AstFrame

NewArray ==
    /\ \E v \in AstValueLists :
          /\ built' = [ctor |-> "Array", arg |-> v]
          /\ node' = AstArray(v)
    /\ AstFrame

\* entries.emplace_back(key, val) on the public entries vector of an Object:
\* the one way the struct gives to extend an Object.
EntriesPush ==
    /\ node.kind = "Object"
    /\ built.ctor = "Object"
    /\ Len(node.val) < MaxEntries
    /\ \E k \in AstKeys, v \in AstLeaves :
          node' = [node EXCEPT !.val = Append(@, KeyValue(k, v))]
    /\ UNCHANGED built
    /\ AstFrame

\* The jon a payload of the constructors test gives.
jonOf(from) ==
    CASE from \in {"default", "nullptr", "null_t"} -> VNull
      [] from = "bool_t" -> VBool(FALSE)
      [] from = "int_t" -> VInt(0)
      [] from = "float_t" -> VFloat(0)
      [] from = "str_t" -> VStr("")
      [] from = "obj_t" -> VObj(<<>>)
      [] from = "arr_t" -> VArr(<<>>)

\* jon {}, jon {nullptr}, jon {jon::bool_t {}} and the like.
JonConstruct ==
    /\ \E from \in JonPayloads :
          /\ jonFrom' = from
          /\ jonVal' = jonOf(from)
    /\ UNCHANGED <<lexVars, intVars, valVars, reuseVars, node, built>>

NextAst ==
    \/ NewNull
    \/ NewBool
    \/ NewInt
    \/ NewFloat
    \/ NewString
    \/ NewObject
    \/ NewArray
    \/ EntriesPush
    \/ JonConstruct

SpecAst == Init /\ [][NextAst]_vars

\* ================================================================ claims

\* C1: lex terminates on every source text: it never enters a loop it
\* cannot leave, whether in lex's own loop (a call of lexCurrent that
\* consumes nothing) or in the loop of a block comment.
C1_LexTerminates == status # "hang"

\* The position after the close that ends a block comment, for a scan that
\* is at position i with `depth` comments open; -1 when the text ends first.
RECURSIVE ClosePos(_, _)
ClosePos(i, depth) ==
    IF depth = 0 THEN i
    ELSE IF i + 1 >= Len(source) THEN 0 - 1
    ELSE IF source[i + 1] = "/" /\ source[i + 2] = "*" THEN ClosePos(i + 2, depth + 1)
    ELSE IF source[i + 1] = "*" /\ source[i + 2] = "/" THEN ClosePos(i + 2, depth - 1)
    ELSE ClosePos(i + 1, depth)

\* C2: a block comment is consumed with nesting: a call of lexComment at a
\* block comment that is closed leaves the cursor after the close that brings
\* the depth back to zero, returns normally and emits no token.
C2_NestedBlockComment ==
    [][(/\ AtLoop
        /\ source[index + 1] = "/"
        /\ lookup(Cur, 1) = "*"
        /\ ClosePos(index + 2, 1) >= 0)
       => (/\ status' = "lexing"
           /\ index' = ClosePos(index + 2, 1)
           /\ tokens' = tokens)]_vars

\* The characters that end a bare run.
RunStops == {",", ":", "{", "}", "[", "]", "'", "\"", NL}

\* The bare run of the source that starts at position p.
RECURSIVE RunFrom(_)
RunFrom(p) ==
    IF p >= Len(source) \/ source[p + 1] \in RunStops THEN <<>>
    ELSE <<source[p + 1]>> \o RunFrom(p + 1)

\* A number starts at position p: a digit, or a sign and a digit.
NumStartAt(p) ==
    /\ p < Len(source)
    /\ \/ isDigitChar(source[p + 1])
       \/ /\ source[p + 1] \in {"+", "-"}
          /\ p + 1 < Len(source)
          /\ isDigitChar(source[p + 2])

\* A bare run starts at position p: no comment, quote, punctuation, line
\* break, white space or number does.
BareStartAt(p) ==
    /\ p < Len(source)
    /\ source[p + 1] \notin RunStops \cup {"/", " ", "\t", "\r"}
    /\ ~NumStartAt(p)

\* The kind the trimmed spelling of a bare run stands for.
KeywordKind(run) ==
    CASE run = <<"n", "u", "l", "l">> -> "Null"
      [] run = <<"f", "a", "l", "s", "e">> -> "False"
      [] run = <<"t", "r", "u", "e">> -> "True"
      [] run = <<"n", "a", "n">> -> "NaN"
      [] run = <<"i", "n", "f">> -> "Inf"
      [] run = <<"-", "i", "n", "f">> -> "NegInf"
      [] OTHER -> "String"

\* C3: the token emitted for a bare run has the kind of the run's trimmed
\* spelling (null, false, true, nan, inf, -inf) and is otherwise a String
\* whose text is the run as it stands in the source, wherever the run sits.
C3_BareRunKind ==
    \A i \in 1..Len(tokens) :
        BareStartAt(tokens[i].pos) =>
            /\ tokens[i].kind = KeywordKind(rtrim(RunFrom(tokens[i].pos)))
            /\ tokens[i].kind = "String" => tokens[i].val = RunFrom(tokens[i].pos)

\* The position of the first digit of the number at p: after its sign.
AfterSign(p) == IF source[p + 1] \in {"+", "-"} THEN p + 1 ELSE p

\* The literal at q starts with 0 and one of the letters.
PrefixAt(q, letters) ==
    q + 1 < Len(source) /\ source[q + 1] = "0" /\ source[q + 2] \in letters

\* The end of the run of decimal digits and separators that starts at q.
RECURSIVE DecEnd(_)
DecEnd(q) ==
    IF q < Len(source) /\ (isDigitChar(source[q + 1]) \/ source[q + 1] = "_")
    THEN DecEnd(q + 1) ELSE q

\* The kind of the numeric literal at position p, by its spelling.
LiteralKind(p) ==
    LET q == AfterSign(p)
        e == DecEnd(q)
    IN IF PrefixAt(q, {"b", "B"}) THEN "BinInt"
       ELSE IF PrefixAt(q, {"o", "O"}) THEN "OctoInt"
       ELSE IF PrefixAt(q, {"x", "X"}) THEN "HexInt"
       ELSE IF e + 1 < Len(source) /\ source[e + 1] = "." /\ isDigitChar(source[e + 2])
            THEN "Float"
       ELSE "DecInt"

\* C4: every token lexNum emits is tagged with the base of its literal:
\* 0b gives BinInt, 0o OctoInt, 0x HexInt, an unprefixed literal DecInt, or
\* Float when it has a `.` followed by a digit.
C4_IntBaseTag ==
    \A i \in 1..Len(tokens) :
        NumStartAt(tokens[i].pos) => tokens[i].kind = LiteralKind(tokens[i].pos)

\* The base an integer token declares.
DeclaredBase(kind) ==
    CASE kind = "DecInt" -> 10
      [] kind = "HexInt" -> 16
      [] kind = "OctoInt" -> 8
      [] kind = "BinInt" -> 2

\* The number a digit text, with its sign, spells in a base.
RECURSIVE Magnitude(_, _)
Magnitude(text, base) ==
    IF text = <<>> THEN 0
    ELSE Magnitude(SubSeq(text, 1, Len(text) - 1), base) * base
         + digitValue(text[Len(text)])

TextValue(text, base) ==
    IF text # <<>> /\ text[1] = "-" THEN 0 - Magnitude(Tail(text), base)
    ELSE Magnitude(text, base)

\* A digit text of a base: an optional `-`, then one or more of its digits.
IsDigitText(text, base) ==
    LET digits == IF text # <<>> /\ text[1] = "-" THEN Tail(text) ELSE text
    IN /\ digits # <<>>
       /\ \A i \in 1..Len(digits) :
             isHexDigitChar(digits[i]) /\ digitValue(digits[i]) < base

\* C5: the Int built from an integer token holds the value of the token's
\* digit text in the token's declared base (2, 8, 10 or 16).
C5_IntValue ==
    (intStatus # "none" /\ IsDigitText(intTok.val, DeclaredBase(intTok.kind))) =>
        /\ intStatus = "ok"
        /\ intVal = TextValue(intTok.val, DeclaredBase(intTok.kind))

\* A sign followed by a base prefix stands at position p.
SignedPrefixAt(p) ==
    /\ p + 2 < Len(source)
    /\ source[p + 1] \in {"+", "-"}
    /\ source[p + 2] = "0"
    /\ source[p + 3] \in {"b", "B", "o", "O", "x", "X"}

\* C6: a base-prefixed literal preceded by a sign, `+` or `-`, never
\* produces a token.
C6_NoSignedPrefixToken ==
    \A i \in 1..Len(tokens) : ~SignedPrefixAt(tokens[i].pos)

\* The position at which the line holding position i starts.
RECURSIVE LineStart(_)
LineStart(i) == IF i = 0 \/ source[i] = NL THEN i ELSE LineStart(i - 1)

\* The position of the line break that ends the line holding position i
\* (the length of the source when there is none).
RECURSIVE LineEnd(_)
LineEnd(i) == IF i >= Len(source) \/ source[i + 1] = NL THEN i ELSE LineEnd(i + 1)

\* The text of the line holding position i, without line breaks.
LineText(i) == SubSeq(source, LineStart(i) + 1, LineEnd(i))

\* From position i on, a line break comes before the next quote q.
RECURSIVE Unterminated(_, _)
Unterminated(i, q) ==
    IF i >= Len(source) THEN FALSE
    ELSE IF source[i + 1] = NL THEN TRUE
    ELSE IF source[i + 1] = q THEN FALSE
    ELSE Unterminated(i + 1, q)

\* Three quotes of the same kind stand at position p.
TripleAt(p) ==
    /\ p + 2 < Len(source)
    /\ source[p + 2] = source[p + 1]
    /\ source[p + 3] = source[p + 1]

\* A quoted text less the line break it may start with.
LessLineBreak(s) == IF s # <<>> /\ s[1] = NL THEN Tail(s) ELSE s

\* C7: a single-line string, in either quote, that meets a line break before
\* its closing quote makes lex fail with a parse_error; no token is added;
\* and the line the diagnostic quotes is the line the string opened on (the
\* quoted text runs from the line break before that line, or from the start
\* of the input, to the line break that ends it).
C7_UnterminatedString ==
    [][(/\ AtLoop
        /\ source[index + 1] \in {"'", "\""}
        /\ ~TripleAt(index)
        /\ Unterminated(index + 1, source[index + 1]))
       => (/\ status' = "parse_error"
           /\ tokens' = tokens
           /\ LessLineBreak(errLine') = LineText(index))]_vars

\* An unterminated string on a later line than the first has been diagnosed.
C7_Witness ==
    /\ status = "parse_error"
    /\ errMsg = "Expected " \o BQ \o "\"" \o BQ \o ", got new line"
    /\ tokens # <<>>
    /\ errLine = <<NL, " ", "\"", "a", "b", "c">>

\* C8: lex fails only through Lexer::error: the cursor is never read at or
\* past the end of the input, which source.at() answers with out_of_range.
C8_NoReadPastEnd == status # "out_of_range"

\* The column of position i: the characters between it and the line break
\* before it, or the start of the input.
ColumnOf(i) == i - LineStart(i)

\* C9: the caret of a diagnostic stands at the column of the character at
\* which the error was detected.
C9_CaretColumn == status = "parse_error" => errCaret = ColumnOf(errAt)

\* A schema of type int whose bounds, when present, are integers.
IsIntSchema(sch) ==
    /\ atIs(sch, "type", "String")
    /\ at(sch, "type").v = "int"
    /\ ~badKey(sch, "nullable", "Bool")
    /\ ~badKey(sch, "mini", "Int")
    /\ ~badKey(sch, "maxi", "Int")

\* C10: against a schema of type int, an Int value v passes exactly when
\* mini <= v <= maxi, each bound applying only when present.
C10_IntBounds ==
    (vResult # "none" /\ vValue.t = "Int" /\ IsIntSchema(vSchema)) =>
        vResult = res(/\ has(vSchema, "mini") => at(vSchema, "mini").v <= vValue.v
                      /\ has(vSchema, "maxi") => vValue.v <= at(vSchema, "maxi").v)

\* --------------------------------------------------------------- C11

\* The schema node declares nullable: true.
DeclaresNullable(sch) == has(sch, "nullable") /\ at(sch, "nullable") = VBool(TRUE)

\* The schema node declares one of the seven type names.
DeclaresType(sch) ==
    /\ atIs(sch, "type", "String")
    /\ at(sch, "type").v \in {"null", "bool", "int", "float", "string", "object", "array"}

\* C11: a Null value validated against a schema node that declares
\* nullable: true passes, whichever of the seven types the node declares
\* and whichever other keys (bounds, items, props) it holds or lacks.
C11_NullablePasses ==
    (vResult # "none" /\ vValue = VNull /\ DeclaresNullable(vSchema)
        /\ DeclaresType(vSchema))
    => vResult = "true"

\* A Null value passed a nullable array schema that has no items key.
C11_Witness ==
    /\ vResult = "true"
    /\ vValue = VNull
    /\ DeclaresNullable(vSchema)
    /\ at(vSchema, "type") = VStr("array")
    /\ ~has(vSchema, "items")

\* ------------------------------------------- well-formed schemas, conformance

\* The set of an object's keys.
Keys(o) == {o.v[i][1] : i \in 1..Len(o.v)}

\* A constraint key, when present, holds a value of its type.
KeyWellTyped(sch, k, t) == has(sch, k) => at(sch, k).t = t

\* The schema node is well formed: a recognized type, constraint keys of
\* their types, items present for an array and props for an object, the
\* sub-schemas well formed too.
RECURSIVE WellFormed(_)
WellFormed(sch) ==
    /\ sch.t = "Object"
    /\ DeclaresType(sch)
    /\ KeyWellTyped(sch, "nullable", "Bool")
    /\ \A k \in {"mini", "maxi", "minLen", "maxLen", "minSize", "maxSize",
                  "minProps", "maxProps"} : KeyWellTyped(sch, k, "Int")
    /\ \A k \in {"minf", "maxf"} : KeyWellTyped(sch, k, "Float")
    /\ at(sch, "type").v = "array" => has(sch, "items") /\ WellFormed(at(sch, "items"))
    /\ at(sch, "type").v = "object" =>
          /\ atIs(sch, "props", "Object")
          /\ \A k \in Keys(at(sch, "props")) : WellFormed(at(at(sch, "props"), k))

\* A bound key, when present, is kept: lo <= n for a lower bound, n <= hi
\* for an upper one, both inclusive.
Within(sch, kmin, kmax, n) ==
    /\ has(sch, kmin) => at(sch, kmin).v <= n
    /\ has(sch, kmax) => n <= at(sch, kmax).v

\* What it is for a value to pass a well-formed schema node, as the schema
\* language defines it: a Null value passes a nullable node; otherwise the
\* value has the node's type, keeps its inclusive bounds, each element of an
\* array passes items, and an object has exactly the keys of props, each
\* entry passing the sub-schema of its name.
RECURSIVE Passes(_, _)
Passes(value, sch) ==
    \/ value.t = "Null" /\ DeclaresNullable(sch)
    \/ /\ value.t = typeNames[at(sch, "type").v]
       /\ value.t = "Int" => Within(sch, "mini", "maxi", value.v)
       /\ value.t = "Float" => Within(sch, "minf", "maxf", value.v)
       /\ value.t = "String" => Within(sch, "minLen", "maxLen", Len(value.v))
       /\ value.t = "Array" =>
             /\ Within(sch, "minSize", "maxSize", Len(value.v))
             /\ \A i \in 1..Len(value.v) : Passes(value.v[i], at(sch, "items"))
       /\ value.t = "Object" =>
             /\ Within(sch, "minProps", "maxProps", Len(value.v))
             /\ Keys(value) = Keys(at(sch, "props"))
             /\ \A k \in Keys(value) : Passes(at(value, k), at(at(sch, "props"), k))

\* --------------------------------------------------------------- C12

\* An object schema with a props map and neither minProps nor maxProps.
IsPropsSchema(sch) ==
    /\ at(sch, "type") = VStr("object")
    /\ atIs(sch, "props", "Object")
    /\ ~has(sch, "minProps") /\ ~has(sch, "maxProps")

\* C12: an Object value validated against a well-formed object schema with
\* a props map (no minProps, no maxProps) passes if and only if its key set
\* equals the key set of props and every entry passes the sub-schema of the
\* same name.
C12_ObjectProps ==
    (/\ vResult # "none"
     /\ WellFormed(vSchema) /\ IsPropsSchema(vSchema)
     /\ vValue.t = "Object")
    => (vResult = "true"
          <=> /\ Keys(vValue) = Keys(at(vSchema, "props"))
              /\ \A k \in Keys(vValue) :
                    Passes(at(vValue, k), at(at(vSchema, "props"), k)))

\* --------------------------------------------------------------- C13

\* An array schema with an items sub-schema.
IsItemsSchema(sch) == at(sch, "type") = VStr("array") /\ has(sch, "items")

\* The array-of-object schema and the data of the claim's example.
ExampleItemsSchema == ArraySchema(ObjectSchema(<<<<"x", TypeSchema("int")>>>>))
ExampleItemsData ==
    VArr(<<VObj(<<<<"x", VInt(1)>>>>), VObj(<<<<"x", VStr("a")>>>>)>>)

\* C13: against a well-formed array schema, validation of an Array value
\* fails whenever one of its elements fails items; and the example
\* [{x: 1}, {x: "a"}] against array-of-object with props {x: int} fails,
\* its first element passing and its second failing on x.
C13_ArrayItems ==
    (vResult # "none" /\ WellFormed(vSchema) /\ IsItemsSchema(vSchema)
        /\ vValue.t = "Array")
    => /\ (\E i \in 1..Len(vValue.v) : ~Passes(vValue.v[i], at(vSchema, "items")))
            => vResult = "false"
       /\ (vSchema = ExampleItemsSchema /\ vValue = ExampleItemsData)
            => /\ vResult = "false"
               /\ validate(vValue.v[1], at(vSchema, "items")) = "true"
               /\ validate(vValue.v[2], at(vSchema, "items")) = "false"
               /\ validate(at(vValue.v[2], "x"), TypeSchema("int")) = "false"

\* --------------------------------------------------------------- C14

\* The schema node's type key is missing or names none of the seven types.
TypeUnknown(sch) == ~DeclaresType(sch)

\* C14: validating any value against a schema node whose type key is
\* missing or names none of the seven types raises an error and returns no
\* pass or fail result, a Null value against a node that also declares
\* nullable: true included.
C14_UnknownTypeRaises ==
    (vResult # "none" /\ TypeUnknown(vSchema)) => vResult = "throw"

\* A Null value against a nullable node of an unknown type raised.
C14_Witness ==
    /\ vResult = "throw"
    /\ vValue = VNull
    /\ DeclaresNullable(vSchema)
    /\ has(vSchema, "type")
    /\ at(vSchema, "type") = VStr("nope")

\* --------------------------------------------------------------- C15

\* C15: validate returns a definite result for every value and every
\* well-formed schema node; a Null value against type null and a Bool value
\* against type bool pass.
C15_ValidateReturns ==
    (vResult # "none" /\ WellFormed(vSchema))
    => /\ vResult \in {"true", "false"}
       /\ (vValue.t = "Null" /\ at(vSchema, "type").v = "null") => vResult = "true"
       /\ (vValue.t = "Bool" /\ at(vSchema, "type").v = "bool") => vResult = "true"

\* --------------------------------------------------------------- C16

\* The keys of the entries are pairwise distinct.
DistinctKeys(entries) ==
    \A i \in 1..Len(entries), j \in 1..Len(entries) :
        i # j => entries[i].key # entries[j].key

\* C16: every Object that can be constructed, or reached by extending one,
\* holds pairwise distinct keys in the order they were supplied: an entry
\* whose key is already present is rejected.
C16_UniqueKeys ==
    (built.ctor = "Object" /\ node.kind = "Object") =>
        /\ DistinctKeys(node.val)
        /\ SubSeq(node.val, 1, Len(built.arg)) = built.arg

\* --------------------------------------------------------------- C17

\* The type tag the constructors test expects of a jon made from a payload.
JonTag(from) ==
    CASE from \in {"default", "nullptr", "null_t"} -> "Null"
      [] from = "bool_t" -> "Bool"
      [] from = "int_t" -> "Int"
      [] from = "float_t" -> "Float"
      [] from = "str_t" -> "String"
      [] from = "obj_t" -> "Object"
      [] from = "arr_t" -> "Array"

PunctKinds == {"Comma", "Colon", "LBrace", "RBrace", "LBracket", "RBracket"}

\* Position p of the source is where a token of the kind of t begins: the
\* end of the text for Eof, the line break, the punctuation character, the
\* sign or first digit of a number, the opening quote of a quoted string,
\* the first character of a bare run.
BeginsAt(t, p) ==
    CASE t.kind = "Eof" -> p = Len(source)
      [] t.kind = "NL" -> p < Len(source) /\ source[p + 1] = NL
      [] t.kind \in PunctKinds ->
            p < Len(source) /\ isPunct(source[p + 1]) /\ punctKind(source[p + 1]) = t.kind
      [] t.kind \in IntKinds \cup {"Float"} -> NumStartAt(p)
      [] OTHER -> p < Len(source) /\ (source[p + 1] \in {"'", "\""} \/ BareStartAt(p))

\* C18: in every token sequence lex returns, each token's span.pos is the
\* offset of the first source character of the token, and span.pos is
\* strictly increasing along the sequence.
C18_TokenPos ==
    status = "done" =>
        /\ \A i \in 1..Len(tokens) : BeginsAt(tokens[i], tokens[i].pos)
        /\ \A i \in 1..(Len(tokens) - 1) : tokens[i].pos < tokens[i + 1].pos

\* lex returned a quoted string that follows white space, a signed number
\* and the Eof token.
C18_Witness ==
    /\ status = "done"
    /\ \E i \in 1..Len(tokens) :
          /\ tokens[i].kind = "String"
          /\ tokens[i].pos > 0
          /\ source[tokens[i].pos + 1] \in {"'", "\""}
    /\ \E i \in 1..Len(tokens) :
          tokens[i].kind \in IntKinds /\ source[tokens[i].pos + 1] = "-"

\* --------------------------------------------------------------- C19

\* C19: the outcome of lex depends on its argument only: a call of lex(s)
\* on a Lexer already used for earlier calls, some of which returned and
\* some of which failed part-way, ends as the call of lex(s) on the new
\* Lexer ended, with the same token sequence or the same error.
C19_LexReuse == (Finished /\ calls = MaxCalls) => Outcome = firstOutcome

\* The last call returned several tokens, as the first did, after a call in
\* between had failed with a parse error.
C19_Witness ==
    /\ calls = MaxCalls
    /\ status = "done"
    /\ Len(tokens) > 2
    /\ errMsg # ""
    /\ firstOutcome.st = "done"

\* --------------------------------------------------------------- C20

\* C20: every token sequence lex returns holds exactly one Eof token, its
\* last, of span (source.size(), 0); the empty source text gives the
\* sequence of that token alone.
C20_EofToken ==
    status = "done" =>
        /\ Len(tokens) >= 1
        /\ tokens[Len(tokens)] = Tok("Eof", <<>>, Len(source), 0)
        /\ \A i \in 1..(Len(tokens) - 1) : tokens[i].kind # "Eof"
        /\ source = <<>> => tokens = <<Tok("Eof", <<>>, 0, 0)>>

\* lex returned the tokens of a text that is not empty.
C20_Witness ==
    /\ status = "done"
    /\ Len(source) > 1
    /\ Len(tokens) > 2
    /\ tokens[Len(tokens)].kind = "Eof"

====
